---- MODULE Spec2Model ----
(***************************************************************************)
(* Model of the collection layer of painel_previsoes_macro:                *)
(*   src/02-funcoes.py  ler_csv, the six coleta_* adapters and             *)
(*                      split_date_range;                                  *)
(*   src/03-coleta.py   the script that collects every series of the       *)
(*                      metadata sheet.                                    *)
(*                                                                         *)
(* A 'dd/mm/YYYY' string is the triple <<dd, mm, yyyy>> of its fields; a   *)
(* datetime is the record [year, month, day] (the code uses no time of     *)
(* day).  strptime turns the first into the second, strftime the second    *)
(* into the first.  Date arithmetic follows CPython's datetime (proleptic  *)
(* Gregorian ordinals).  All dates of the model stay far below             *)
(* datetime.MAXYEAR, so neither replace() nor timedelta addition           *)
(* overflows the year range.                                               *)
(***************************************************************************)
EXTENDS Integers, Sequences, FiniteSets, TLC

VARIABLES
  \* ---- split_date_range (src/02-funcoes.py:166-193) ----
  sp_pc,            \* "idle" | "loop" | "returned"
  start_date,       \* datetime parsed from start_date_str   (line 172)
  end_date,         \* datetime parsed from end_date_str     (line 173)
  interval_years,   \* the parameter
  current_start,    \* the loop cursor                       (line 176)
  result,           \* list of (start string, end string)    (line 175)
  fallbacks,        \* per window: TRUE iff the except-ValueError branch
                    \* (line 182) computed its candidate end
  \* ---- ler_csv (src/02-funcoes.py:9-27), one activation per call id ----
  lc_pc,            \* "idle" | "while" | "print" | "sleep" | "returned"
  tentativas,       \* the local counter                     (line 17)
  retorno,          \* the value returned (NotReturned before the return)
  fonte,            \* what the next calls of pd.read_csv on this locator
                    \* will do, in order: "ok" or "falha" (raises)
  tabela,           \* the table a successful read of this locator parses
  leituras,         \* outcomes of the calls of pd.read_csv made so far
  espera,           \* seconds spent in time.sleep so far
  log,              \* the lines printed so far
  \* ---- one call of a coleta_* adapter (src/02-funcoes.py:31-161) ----
  ad_pc,            \* "idle" | "start" | "split" | "loop" | "ler_csv" |
                    \* "else" | "returned" | "raised"
  ad_fn,            \* the adapter called
  serie,            \* <<codigo, nome>>
  freq,             \* coleta_bcb_sgs: the freq argument
  periodo,          \* coleta_bcb_sgs: <<data_inicio, data_fim>>
  datas_inicio,     \* coleta_bcb_sgs: the windows to request (lines 37-40)
  ad_i,             \* coleta_bcb_sgs: position of the for loop of line 45
  pedidos,          \* the locators requested so far, in order
  respostas,        \* coleta_bcb_sgs: the list built by line 47
  resposta,         \* the value bound to resposta by the try block
  capturada,        \* the exception the except clause caught (or none)
  ad_exc,           \* the exception that left the adapter (or none)
  ad_ret,           \* the value the adapter returned
  ad_leituras,      \* outcomes of the direct reads (pd.read_json,
                    \* pd.read_excel) the adapter made
  ad_fonte,         \* what one more direct read would have done
  \* ---- the sources ----
  amb,              \* the behaviours of the sources considered in a run:
                    \* roteiros (read outcomes), colunas, valores
  \* ---- the collection script (src/03-coleta.py) ----
  metadados,        \* df_metadados: the rows of the metadata sheet
  data_fim_padrao,  \* the default data_fim of coleta_bcb_sgs, evaluated
                    \* once when the function is defined (02-funcoes.py:31)
  orq_pc,           \* "idle" | the section being collected | "done" |
                    \* "aborted"
  orq_i,            \* position of the for loop of the section
  df_bruto,         \* the df_bruto_* containers, by section
  chamadas,         \* the adapter calls made so far: <<adapter, row>>
  orq_exc           \* the exception that ended the script (or none)

splitVars == <<sp_pc, start_date, end_date, interval_years, current_start,
               result, fallbacks>>

lerVars == <<lc_pc, tentativas, retorno, fonte, tabela, leituras, espera, log>>

adVars == <<ad_pc, ad_fn, serie, freq, periodo, datas_inicio, ad_i, pedidos,
            respostas, resposta, capturada, ad_exc, ad_ret, ad_leituras,
            ad_fonte>>

orqVars == <<metadados, data_fim_padrao, orq_pc, orq_i, df_bruto, chamadas,
             orq_exc>>

vars == <<splitVars, lerVars, adVars, amb, orqVars>>

(***************************************************************************)
(* Bounds of the model.                                                    *)
(***************************************************************************)
YearSpan == 8
MaxInterval == 4
ScriptLen == 6
MaxRows == 3

Years == 2016 .. (2016 + YearSpan)
Intervals == 1 .. MaxInterval

(***************************************************************************)
(* Calendar, as CPython's datetime computes it.                            *)
(***************************************************************************)
IsLeap(y) == (y % 4 = 0) /\ ((y % 100 # 0) \/ (y % 400 = 0))

DaysInMonth(y, m) ==
  IF m = 2 THEN (IF IsLeap(y) THEN 29 ELSE 28)
  ELSE IF m \in {4, 6, 9, 11} THEN 30 ELSE 31

DaysBeforeMonthTable == <<0, 31, 59, 90, 120, 151, 181, 212, 243, 273, 304, 334>>

DaysBeforeMonth(y, m) ==
  DaysBeforeMonthTable[m] + (IF m > 2 /\ IsLeap(y) THEN 1 ELSE 0)

DaysBeforeYear(y) ==
  (y - 1) * 365 + ((y - 1) \div 4) - ((y - 1) \div 100) + ((y - 1) \div 400)

\* datetime.toordinal()
ToOrdinal(dt) ==
  DaysBeforeYear(dt.year) + DaysBeforeMonth(dt.year, dt.month) + dt.day

\* datetime.fromordinal(): CPython's _ord2ymd
FromOrdinal(ord) ==
  LET n0   == ord - 1
      n400 == n0 \div 146097
      r400 == n0 % 146097
      n100 == r400 \div 36524
      r100 == r400 % 36524
      n4   == r100 \div 1461
      r4   == r100 % 1461
      n1   == r4 \div 365
      n    == r4 % 365
      year == n400 * 400 + 1 + n100 * 100 + n4 * 4 + n1
  IN IF n1 = 4 \/ n100 = 4
       THEN [year |-> year - 1, month |-> 12, day |-> 31]
       ELSE LET leap  == (n1 = 3) /\ ((n4 # 24) \/ (n100 = 3))
                m0    == (n + 50) \div 32
                p0    == DaysBeforeMonthTable[m0]
                           + (IF m0 > 2 /\ leap THEN 1 ELSE 0)
                month == IF p0 > n THEN m0 - 1 ELSE m0
                prec  == IF p0 > n
                           THEN p0 - (DaysInMonth(year, m0 - 1))
                           ELSE p0
           IN [year |-> year, month |-> month, day |-> n - prec + 1]

\* datetime < datetime: field-wise, most significant first
DateLess(a, b) ==
  \/ a.year < b.year
  \/ a.year = b.year /\ a.month < b.month
  \/ a.year = b.year /\ a.month = b.month /\ a.day < b.day

ValidDate(y, m, d) == m \in 1..12 /\ d >= 1 /\ d <= DaysInMonth(y, m)

\* datetime.strptime(s, "%d/%m/%Y")
Strptime(s) == [year |-> s[3], month |-> s[2], day |-> s[1]]

\* datetime.strftime("%d/%m/%Y")
Strftime(dt) == <<dt.day, dt.month, dt.year>>

\* datetime + timedelta(days = n)
AddDays(dt, n) == FromOrdinal(ToOrdinal(dt) + n)

\* Variant: every Feb-29 replacement raises.
ReplaceYearRaisesFeb29(dt, y) == dt.month = 2 /\ dt.day = 29

\* current_start.replace(year = y) raises ValueError iff the day does not
\* exist in year y
ReplaceYearRaises(dt, y) == ~ValidDate(y, dt.month, dt.day)

ReplaceYear(dt, y) == [dt EXCEPT !.year = y]

(***************************************************************************)
(* split_date_range                                                        *)
(***************************************************************************)
\* Variant: the window is one year too long.
CandidateEndLong(cur, n) ==
  IF ReplaceYearRaises(cur, cur.year + n + 1)
    THEN AddDays(cur, 365 * (n + 1))
    ELSE ReplaceYear(cur, cur.year + n + 1)

\* Variant: the fallback counts leap years (366 days a year).
CandidateEnd366(cur, n) ==
  IF ReplaceYearRaises(cur, cur.year + n)
    THEN AddDays(cur, 366 * n)
    ELSE ReplaceYear(cur, cur.year + n)

\* Variant: the candidate end does not advance.
CandidateEndStuck(cur, n) == cur

\* lines 179-182: the candidate end of the window that starts at cur
CandidateEnd(cur, n) ==
  IF ReplaceYearRaises(cur, cur.year + n)
    THEN AddDays(cur, 365 * n)
    ELSE ReplaceYear(cur, cur.year + n)

\* Variant: no clamp.
ClampEndNone(cand, endd) == cand

\* lines 184-185: the clamp to end_date
ClampEnd(cand, endd) == IF DateLess(endd, cand) THEN endd ELSE cand

\* Variant: the loop also runs when the cursor equals end_date.
LoopConditionLeq(cur, endd) == ~DateLess(endd, cur)

\* line 178: the loop condition
LoopCondition(cur, endd) == DateLess(cur, endd)

\* Variant: the next window starts the day after this one ends.
NextStartDayAfter(cur_end) == AddDays(cur_end, 1)

\* line 191: the next window starts where this one ends
NextStart(cur_end) == cur_end

\* lines 172-176: the prologue of a call
SplitEnter(s, e, n) ==
  /\ sp_pc = "idle"
  /\ sp_pc' = "loop"
  /\ start_date' = Strptime(s)
  /\ end_date' = Strptime(e)
  /\ interval_years' = n
  /\ current_start' = Strptime(s)
  /\ result' = <<>>
  /\ fallbacks' = <<>>

\* lines 178-191: one iteration of the while loop
SplitIterate ==
  /\ sp_pc = "loop"
  /\ LoopCondition(current_start, end_date)
  /\ LET cand        == CandidateEnd(current_start, interval_years)
         current_end == ClampEnd(cand, end_date)
     IN /\ result' = Append(result,
                            <<Strftime(current_start), Strftime(current_end)>>)
        /\ fallbacks' = Append(fallbacks,
               ReplaceYearRaises(current_start,
                                 current_start.year + interval_years))
        /\ current_start' = NextStart(current_end)
  /\ UNCHANGED <<sp_pc, start_date, end_date, interval_years>>
  /\ UNCHANGED <<lerVars, adVars>>
  /\ UNCHANGED <<amb, orqVars>>

\* lines 178 and 193: the loop condition fails, the list is returned
SplitReturn ==
  /\ sp_pc = "loop"
  /\ ~LoopCondition(current_start, end_date)
  /\ sp_pc' = "returned"
  /\ UNCHANGED <<start_date, end_date, interval_years, current_start,
                 result, fallbacks>>
  /\ UNCHANGED <<lerVars, adVars>>
  /\ UNCHANGED <<amb, orqVars>>

(***************************************************************************)
(* ler_csv                                                                 *)
(***************************************************************************)
MaxTentativas == 5
Intervalo == 2

Calls == {"c1", "c2"}

\* Values of Python objects the adapters pass around.
None == [kind |-> "None"]
NotReturned == [kind |-> "-"]
\* A table: whether it has the columns the adapter expects, the requests
\* whose rows it holds (in order), and its rows <<position, value>> where
\* the adapter looks at the values.
DataFrame(cols, blocos, linhas) ==
  [kind |-> "DataFrame", cols |-> cols, blocos |-> blocos, linhas |-> linhas]

Columns == {"expected", "unexpected"}

\* The tables a read of locator loc may parse.
Served(loc) == {DataFrame(c, <<loc>>, <<>>) : c \in amb.colunas}

Outcomes == {"ok", "falha"}
Scripts == [1 .. ScriptLen -> Outcomes]

\* Variant: one attempt too many.
RetryOneMore(t) == t <= MaxTentativas

\* line 18: while tentativas < max_tentativas
Retry(t) == t < MaxTentativas

\* Variant: the success does not leave the loop.
AfterSuccessLoops == "while"

\* line 21: return df
AfterSuccess == "returned"

\* line 9 with lines 15-17: a call starts
LerCsvEnter(c, script, tab) ==
  /\ lc_pc[c] = "idle"
  /\ lc_pc' = [lc_pc EXCEPT ![c] = "while"]
  /\ tentativas' = [tentativas EXCEPT ![c] = 0]
  /\ retorno' = [retorno EXCEPT ![c] = NotReturned]
  /\ fonte' = [fonte EXCEPT ![c] = script]
  /\ tabela' = [tabela EXCEPT ![c] = tab]
  /\ leituras' = [leituras EXCEPT ![c] = <<>>]
  /\ espera' = [espera EXCEPT ![c] = 0]
  /\ log' = [log EXCEPT ![c] = <<>>]

\* lines 18-23: one attempt: pd.read_csv returns (line 21) or raises an
\* Exception, which line 22 catches and line 23 counts
LerCsvRead(c) ==
  /\ lc_pc[c] = "while"
  /\ Retry(tentativas[c])
  /\ fonte[c] # <<>>
  /\ leituras' = [leituras EXCEPT ![c] = Append(@, Head(fonte[c]))]
  /\ fonte' = [fonte EXCEPT ![c] = Tail(@)]
  /\ IF Head(fonte[c]) = "ok"
       THEN /\ retorno' = [retorno EXCEPT ![c] = tabela[c]]
            /\ lc_pc' = [lc_pc EXCEPT ![c] = AfterSuccess]
            /\ UNCHANGED tentativas
       ELSE /\ tentativas' = [tentativas EXCEPT ![c] = @ + 1]
            /\ lc_pc' = [lc_pc EXCEPT ![c] = "print"]
            /\ UNCHANGED retorno
  /\ UNCHANGED <<tabela, espera, log>>
  /\ UNCHANGED <<splitVars, adVars>>
  /\ UNCHANGED <<amb, orqVars>>

\* line 24: the failed attempt is logged with its number
LerCsvPrint(c) ==
  /\ lc_pc[c] = "print"
  /\ log' = [log EXCEPT ![c] = Append(@, <<"Tentativa", tentativas[c]>>)]
  /\ lc_pc' = [lc_pc EXCEPT ![c] = "sleep"]
  /\ UNCHANGED <<tentativas, retorno, fonte, tabela, leituras, espera>>
  /\ UNCHANGED <<splitVars, adVars>>
  /\ UNCHANGED <<amb, orqVars>>

\* Variant: the wait grows with the number of failed attempts.
LerCsvSleepGrowing(c) ==
  /\ lc_pc[c] = "sleep"
  /\ espera' = [espera EXCEPT ![c] = @ + Intervalo * tentativas[c]]
  /\ lc_pc' = [lc_pc EXCEPT ![c] = "while"]
  /\ UNCHANGED <<tentativas, retorno, fonte, tabela, leituras, log>>
  /\ UNCHANGED <<splitVars, adVars>>
  /\ UNCHANGED <<amb, orqVars>>

\* line 25: time.sleep(intervalo), then back to the loop condition
LerCsvSleep(c) ==
  /\ lc_pc[c] = "sleep"
  /\ espera' = [espera EXCEPT ![c] = @ + Intervalo]
  /\ lc_pc' = [lc_pc EXCEPT ![c] = "while"]
  /\ UNCHANGED <<tentativas, retorno, fonte, tabela, leituras, log>>
  /\ UNCHANGED <<splitVars, adVars>>
  /\ UNCHANGED <<amb, orqVars>>

\* lines 18, 26-27: the attempts are used up
LerCsvGiveUp(c) ==
  /\ lc_pc[c] = "while"
  /\ ~Retry(tentativas[c])
  /\ log' = [log EXCEPT ![c] = Append(@, <<"Falha", MaxTentativas>>)]
  /\ retorno' = [retorno EXCEPT ![c] = None]
  /\ lc_pc' = [lc_pc EXCEPT ![c] = "returned"]
  /\ UNCHANGED <<tentativas, fonte, tabela, leituras, espera>>
  /\ UNCHANGED <<splitVars, adVars>>
  /\ UNCHANGED <<amb, orqVars>>

LerIdle ==
  /\ lc_pc = [c \in Calls |-> "idle"]
  /\ tentativas = [c \in Calls |-> 0]
  /\ retorno = [c \in Calls |-> NotReturned]
  /\ fonte = [c \in Calls |-> <<>>]
  /\ tabela = [c \in Calls |-> None]
  /\ leituras = [c \in Calls |-> <<>>]
  /\ espera = [c \in Calls |-> 0]
  /\ log = [c \in Calls |-> <<>>]

(***************************************************************************)
(* The adapters: coleta_bcb_sgs, coleta_bcb_odata, coleta_ipeadata,        *)
(* coleta_ibge_sidra, coleta_fred, coleta_ifi.                             *)
(***************************************************************************)
DefaultIntervalYears == 5

LerCsvAdapters == {"coleta_bcb_odata", "coleta_fred"}
DirectAdapters == {"coleta_ipeadata", "coleta_ibge_sidra", "coleta_ifi"}
Adapters == {"coleta_bcb_sgs"} \cup LerCsvAdapters \cup DirectAdapters

NoException == [kind |-> "none"]
Raised(kind) == [kind |-> kind]

\* Exception(f"Falha na coleta da série {codigo} ({nome})")
CollectionFailed(ser) ==
  [kind |-> "Exception", msg |-> <<"Falha na coleta da série", ser[1], ser[2]>>]

\* Variant: the handler lets the original exception through.
GuardReraises(exc, ser) == exc

\* lines 49-50, 75-76, 91-92, 111-112, 138-139, 158-159: the bare except
\* of every adapter raises the collection-failed error in place of exc
Guard(exc, ser) == CollectionFailed(ser)

RECURSIVE Flatten(_)
Flatten(seqs) ==
  IF seqs = <<>> THEN <<>> ELSE Head(seqs) \o Flatten(Tail(seqs))

\* Variant: an empty list gives an empty table.
ConcatEmptyOk(list) ==
  LET kept == SelectSeq(list, LAMBDA t : t # None) IN
    IF list # <<>> /\ kept = <<>>
      THEN Raised("ValueError")
      ELSE DataFrame(
             IF \E i \in 1 .. Len(kept) : kept[i].cols = "expected"
               THEN "expected" ELSE "unexpected",
             Flatten([i \in 1 .. Len(kept) |-> kept[i].blocos]),
             Flatten([i \in 1 .. Len(kept) |-> kept[i].linhas]))

\* line 48: pd.concat(resposta).  An empty list and a list of None only
\* raise ValueError; otherwise the None entries are dropped silently and
\* the other blocks are stacked in order.
Concat(list) ==
  LET kept == SelectSeq(list, LAMBDA t : t # None) IN
    IF kept = <<>>
      THEN Raised("ValueError")
      ELSE DataFrame(
             IF \E i \in 1 .. Len(kept) : kept[i].cols = "expected"
               THEN "expected" ELSE "unexpected",
             Flatten([i \in 1 .. Len(kept) |-> kept[i].blocos]),
             Flatten([i \in 1 .. Len(kept) |-> kept[i].linhas]))

\* Variant: the dash is not filtered.
PlaceholdersShort == {"Valor", "..."}

\* line 119: isin(["Valor", "...", "-"])
Placeholders == {"Valor", "...", "-"}
NumericTokens == {"100"}
\* The values a served SIDRA row may hold.
ValueTokens == {"100", "Valor", "...", "-", "abc"}

\* pd.to_numeric of one value that it can parse
ToNumeric(tok) == IF tok = "100" THEN 100 ELSE 0

\* lines 114-121 of coleta_ibge_sidra
NormalizeSidra(df) ==
  IF df.cols # "expected"
    THEN Raised("KeyError")
    ELSE LET kept == SelectSeq(df.linhas,
                               LAMBDA r : r[2] \notin Placeholders) IN
           IF \E i \in 1 .. Len(kept) : kept[i][2] \notin NumericTokens
             THEN Raised("ValueError")
             ELSE DataFrame("normalized", df.blocos,
                    [i \in 1 .. Len(kept) |->
                       <<kept[i][1], ToNumeric(kept[i][2])>>])

\* The else branch of each adapter: the table it returns, or the exception
\* its expressions raise.
\*   coleta_bcb_sgs     lines 52-57   x.data needs the column 'data'; the
\*                                    dates are parsed and become the index,
\*                                    the rows stay as they are
\*   coleta_bcb_odata   line 78       None has no rename
\*   coleta_ipeadata    lines 94-98   resposta["value"]
\*   coleta_ibge_sidra  lines 114-121
\*   coleta_fred        line 141      None has no rename
\*   coleta_ifi         line 161
Normalize(fn, df) ==
  CASE fn = "coleta_bcb_sgs" ->
         IF df.cols = "expected"
           THEN DataFrame("normalized", df.blocos,
                  [i \in 1 .. Len(df.linhas) |->
                     <<Strptime(df.linhas[i][1]), df.linhas[i][2]>>])
           ELSE Raised("AttributeError")
    [] fn \in LerCsvAdapters ->
         IF df = None
           THEN Raised("AttributeError")
           ELSE DataFrame(IF df.cols = "expected" THEN "normalized"
                                                  ELSE df.cols,
                          df.blocos, df.linhas)
    [] fn = "coleta_ipeadata" ->
         IF df.cols = "expected"
           THEN DataFrame("normalized", df.blocos, df.linhas)
           ELSE Raised("KeyError")
    [] fn = "coleta_ibge_sidra" -> NormalizeSidra(df)
    [] fn = "coleta_ifi" -> df

IsTable(v) == v.kind = "DataFrame"

\* The dates on which the SGS series have an observation: a sample of the
\* calendar.
DatasDisponiveis ==
  {<<dm[1], dm[2], y>> : dm \in {<<1, 1>>, <<15, 6>>, <<31, 12>>}, y \in Years}

RECURSIVE InDateOrder(_)
InDateOrder(S) ==
  IF S = {}
    THEN <<>>
    ELSE LET m == CHOOSE x \in S :
                    \A y \in S : ~DateLess(Strptime(y), Strptime(x))
         IN <<m>> \o InDateOrder(S \ {m})

\* line 46: the rows the SGS API serves for dataInicial=d0&dataFinal=d1:
\* one row <<data, valor>> for every date of the series from d0 to d1, both
\* included, in date order.
SgsRows(d0, d1) ==
  LET S == {d \in DatasDisponiveis \cup {d0, d1} :
              /\ ~DateLess(Strptime(d), Strptime(d0))
              /\ ~DateLess(Strptime(d1), Strptime(d))}
      ds == InDateOrder(S)
  IN [i \in 1 .. Len(ds) |-> <<ds[i], "100">>]

ServedSgs(url) ==
  {DataFrame(c, <<url>>, SgsRows(url[2], url[3])) : c \in amb.colunas}

NoSpan == <<>>

AdapterIdle ==
  /\ ad_pc = "idle"
  /\ ad_fn = "-"
  /\ serie = <<"-", "-">>
  /\ freq = "-"
  /\ periodo = NoSpan
  /\ datas_inicio = <<>>
  /\ ad_i = 0
  /\ pedidos = <<>>
  /\ respostas = <<>>
  /\ resposta = NotReturned
  /\ capturada = NoException
  /\ ad_exc = NoException
  /\ ad_ret = NotReturned
  /\ ad_leituras = <<>>
  /\ ad_fonte = <<>>

\* An adapter is called: its arguments are bound.
AdapterEnter(fn, ser, fr, per) ==
  /\ ad_pc = "idle"
  /\ ad_pc' = "start"
  /\ ad_fn' = fn
  /\ serie' = ser
  /\ freq' = fr
  /\ periodo' = per
  /\ UNCHANGED <<datas_inicio, ad_i, pedidos, respostas, resposta, capturada,
                 ad_exc, ad_ret, ad_leituras, ad_fonte>>

\* Variant: every frequency is fragmented.
IsDiariaAlways(fr) == TRUE

\* Variant: no frequency is fragmented.
IsDiariaNever(fr) == FALSE

\* line 37: if freq == "Diária"
IsDiaria(fr) == fr = "Diária"

\* lines 37-38: a daily series is split into windows
SgsSplit ==
  /\ ad_pc = "start"
  /\ ad_fn = "coleta_bcb_sgs"
  /\ IsDiaria(freq)
  /\ SplitEnter(periodo[1], periodo[2], DefaultIntervalYears)
  /\ ad_pc' = "split"
  /\ UNCHANGED <<ad_fn, serie, freq, periodo, datas_inicio, ad_i, pedidos,
                 respostas, resposta, capturada, ad_exc, ad_ret>>
  /\ UNCHANGED lerVars
  /\ UNCHANGED <<ad_leituras, ad_fonte>>
  /\ UNCHANGED <<amb, orqVars>>

\* line 38: split_date_range has returned
SgsSplitReturned ==
  /\ ad_pc = "split"
  /\ sp_pc = "returned"
  /\ datas_inicio' = result
  /\ ad_i' = 1
  /\ ad_pc' = "loop"
  /\ UNCHANGED <<ad_fn, serie, freq, periodo, pedidos, respostas, resposta,
                 capturada, ad_exc, ad_ret>>
  /\ UNCHANGED <<splitVars, lerVars>>
  /\ UNCHANGED <<ad_leituras, ad_fonte>>
  /\ UNCHANGED <<amb, orqVars>>

\* lines 39-40: any other frequency is requested in one piece
SgsSingleWindow ==
  /\ ad_pc = "start"
  /\ ad_fn = "coleta_bcb_sgs"
  /\ ~IsDiaria(freq)
  /\ datas_inicio' = <<periodo>>
  /\ ad_i' = 1
  /\ ad_pc' = "loop"
  /\ UNCHANGED <<ad_fn, serie, freq, periodo, pedidos, respostas, resposta,
                 capturada, ad_exc, ad_ret>>
  /\ UNCHANGED <<splitVars, lerVars>>
  /\ UNCHANGED <<ad_leituras, ad_fonte>>
  /\ UNCHANGED <<amb, orqVars>>

\* lines 45-47: the next window is requested through ler_csv
SgsRequest ==
  /\ ad_pc = "loop"
  /\ ad_i <= Len(datas_inicio)
  /\ LET d   == datas_inicio[ad_i]
         url == <<serie[1], d[1], d[2]>>
     IN /\ pedidos' = Append(pedidos, url)
        /\ \E script \in amb.roteiros, tab \in ServedSgs(url) :
             LerCsvEnter("c1", script, tab)
  /\ ad_pc' = "ler_csv"
  /\ UNCHANGED <<ad_fn, serie, freq, periodo, datas_inicio, ad_i, respostas,
                 resposta, capturada, ad_exc, ad_ret>>
  /\ UNCHANGED splitVars
  /\ UNCHANGED <<ad_leituras, ad_fonte>>
  /\ UNCHANGED <<amb, orqVars>>

\* line 47: what ler_csv returned is appended, whatever it is
SgsAppend ==
  /\ ad_pc = "ler_csv"
  /\ ad_fn = "coleta_bcb_sgs"
  /\ lc_pc["c1"] = "returned"
  /\ respostas' = Append(respostas, retorno["c1"])
  /\ ad_i' = ad_i + 1
  /\ ad_pc' = "loop"
  /\ lc_pc' = [lc_pc EXCEPT !["c1"] = "idle"]
  /\ UNCHANGED <<ad_fn, serie, freq, periodo, datas_inicio, pedidos, resposta,
                 capturada, ad_exc, ad_ret>>
  /\ UNCHANGED <<tentativas, retorno, fonte, tabela, leituras, espera, log>>
  /\ UNCHANGED splitVars
  /\ UNCHANGED <<ad_leituras, ad_fonte>>
  /\ UNCHANGED <<amb, orqVars>>

\* lines 48-50: the blocks are concatenated; an exception of pd.concat is
\* caught by the bare except
SgsConcat ==
  /\ ad_pc = "loop"
  /\ ad_i > Len(datas_inicio)
  /\ LET c == Concat(respostas) IN
       IF IsTable(c)
         THEN /\ resposta' = c
              /\ ad_pc' = "else"
              /\ UNCHANGED <<capturada, ad_exc>>
         ELSE /\ capturada' = c
              /\ ad_exc' = Guard(c, serie)
              /\ ad_pc' = "raised"
              /\ UNCHANGED resposta
  /\ UNCHANGED <<ad_fn, serie, freq, periodo, datas_inicio, ad_i, pedidos,
                 respostas, ad_ret>>
  /\ UNCHANGED <<splitVars, lerVars>>
  /\ UNCHANGED <<ad_leituras, ad_fonte>>
  /\ UNCHANGED <<amb, orqVars>>

\* lines 70-74 and 134-137: the one request of coleta_bcb_odata and of
\* coleta_fred goes through ler_csv
CsvRequest ==
  /\ ad_pc = "start"
  /\ ad_fn \in LerCsvAdapters
  /\ pedidos' = Append(pedidos, <<serie[1]>>)
  /\ \E script \in amb.roteiros, tab \in Served(<<serie[1]>>) :
       LerCsvEnter("c1", script, tab)
  /\ ad_pc' = "ler_csv"
  /\ UNCHANGED <<ad_fn, serie, freq, periodo, datas_inicio, ad_i, respostas,
                 resposta, capturada, ad_exc, ad_ret>>
  /\ UNCHANGED splitVars
  /\ UNCHANGED <<ad_leituras, ad_fonte>>
  /\ UNCHANGED <<amb, orqVars>>

\* lines 70 and 134: resposta is bound to what ler_csv returned; the try
\* block ends without an exception
CsvAssign ==
  /\ ad_pc = "ler_csv"
  /\ ad_fn \in LerCsvAdapters
  /\ lc_pc["c1"] = "returned"
  /\ resposta' = retorno["c1"]
  /\ ad_pc' = "else"
  /\ lc_pc' = [lc_pc EXCEPT !["c1"] = "idle"]
  /\ UNCHANGED <<ad_fn, serie, freq, periodo, datas_inicio, ad_i, pedidos,
                 respostas, capturada, ad_exc, ad_ret>>
  /\ UNCHANGED <<tentativas, retorno, fonte, tabela, leituras, espera, log>>
  /\ UNCHANGED splitVars
  /\ UNCHANGED <<ad_leituras, ad_fonte>>
  /\ UNCHANGED <<amb, orqVars>>

\* The tables a direct read may parse: the SIDRA rows carry values.
RowSeqs ==
  UNION {[1 .. n -> ValueTokens] : n \in 0 .. MaxRows}

ServedDirect(fn, loc) ==
  IF fn = "coleta_ibge_sidra"
    THEN {DataFrame(c, <<loc>>, [i \in 1 .. Len(v) |-> <<i, v[i]>>]) :
            c \in amb.colunas, v \in amb.valores}
    ELSE Served(loc)

\* lines 88-92, 108-112, 150-159: pd.read_json / pd.read_excel is called
\* once, directly; it returns a table or raises, and the bare except
\* catches what it raises.  The source follows one of its scripts: the
\* first outcome is this read, the second is what one more read would
\* have done.
DirectRead ==
  /\ ad_pc = "start"
  /\ ad_fn \in DirectAdapters
  /\ pedidos' = Append(pedidos, <<serie[1]>>)
  /\ \E script \in amb.roteiros :
       /\ ad_leituras' = <<script[1]>>
       /\ ad_fonte' = <<script[2]>>
       /\ IF script[1] = "ok"
            THEN /\ \E tab \in ServedDirect(ad_fn, <<serie[1]>>) :
                      resposta' = tab
                 /\ ad_pc' = "else"
                 /\ UNCHANGED <<capturada, ad_exc>>
            ELSE /\ capturada' = Raised("ReadError")
                 /\ ad_exc' = Guard(Raised("ReadError"), serie)
                 /\ ad_pc' = "raised"
                 /\ UNCHANGED resposta
  /\ UNCHANGED <<ad_fn, serie, freq, periodo, datas_inicio, ad_i, respostas,
                 ad_ret>>
  /\ UNCHANGED <<splitVars, lerVars>>
  /\ UNCHANGED <<amb, orqVars>>

\* The else branch: the result is normalized and returned; an exception
\* raised here is outside the try block and leaves the adapter as it is.
AdapterElse ==
  /\ ad_pc = "else"
  /\ LET r == Normalize(ad_fn, resposta) IN
       IF IsTable(r)
         THEN /\ ad_ret' = r
              /\ ad_pc' = "returned"
              /\ UNCHANGED ad_exc
         ELSE /\ ad_exc' = r
              /\ ad_pc' = "raised"
              /\ UNCHANGED ad_ret
  /\ UNCHANGED <<ad_fn, serie, freq, periodo, datas_inicio, ad_i, pedidos,
                 respostas, resposta, capturada>>
  /\ UNCHANGED <<splitVars, lerVars>>
  /\ UNCHANGED <<ad_leituras, ad_fonte>>
  /\ UNCHANGED <<amb, orqVars>>

\* Every behaviour of the sources.
AmbFull == [roteiros |-> Scripts, colunas |-> Columns, valores |-> RowSeqs]

(***************************************************************************)
(* The collection script, src/03-coleta.py.                                *)
(***************************************************************************)
OrqIdle ==
  /\ metadados = <<>>
  /\ data_fim_padrao = <<>>
  /\ orq_pc = "idle"
  /\ orq_i = 0
  /\ df_bruto = <<>>
  /\ chamadas = <<>>
  /\ orq_exc = NoException

(***************************************************************************)
(* Inputs of the split_date_range specification.                           *)
(***************************************************************************)
DayMonths == {<<1, 1>>, <<28, 2>>, <<29, 2>>, <<1, 3>>, <<15, 6>>, <<31, 12>>}

DateStrings ==
  {s \in {<<dm[1], dm[2], y>> : dm \in DayMonths, y \in Years} :
     ValidDate(s[3], s[2], s[1])}

NoDate == [year |-> 0, month |-> 0, day |-> 0]

SplitIdle ==
  /\ sp_pc = "idle"
  /\ start_date = NoDate
  /\ end_date = NoDate
  /\ interval_years = 0
  /\ current_start = NoDate
  /\ result = <<>>
  /\ fallbacks = <<>>

InitSplit == SplitIdle /\ LerIdle /\ AdapterIdle /\ amb = AmbFull /\ OrqIdle

SplitCall ==
  /\ sp_pc = "idle"
  /\ \E s \in DateStrings, e \in DateStrings, n \in Intervals :
       SplitEnter(s, e, n)
  /\ UNCHANGED <<lerVars, adVars>>
  /\ UNCHANGED <<amb, orqVars>>

NextSplit == SplitCall \/ SplitIterate \/ SplitReturn

SpecSplit == InitSplit /\ [][NextSplit]_vars

\* Once called, the function runs: its loop keeps iterating and its return
\* is taken.  Nothing obliges a caller to call it.
SpecSplitFair == SpecSplit /\ WF_vars(SplitIterate) /\ WF_vars(SplitReturn)

(***************************************************************************)
(* Properties of split_date_range.                                         *)
(***************************************************************************)
WinStart(i) == Strptime(result[i][1])
WinEnd(i) == Strptime(result[i][2])
Windows == 1 .. Len(result)
ValidCall == DateLess(start_date, end_date) /\ interval_years >= 1
Date(d, m, y) == [year |-> y, month |-> m, day |-> d]

\* C1: for start < end and interval_years >= 1 the returned list is
\* non-empty, its first window starts at start and its last window ends at
\* end.
C1_Coverage ==
  (sp_pc = "returned" /\ ValidCall) =>
     /\ Len(result) >= 1
     /\ WinStart(1) = start_date
     /\ WinEnd(Len(result)) = end_date

C1_Witness ==
  /\ sp_pc = "returned" /\ ValidCall
  /\ Len(result) >= 2
  /\ WinStart(1) = start_date
  /\ WinEnd(Len(result)) = end_date

\* C2: the windows are in chronological order and contiguous: each
\* window's end is the next window's start.
C2_Contiguous ==
  (sp_pc # "idle" /\ ValidCall) =>
     \A i \in Windows :
        i < Len(result) =>
           /\ result[i][2] = result[i + 1][1]
           /\ DateLess(WinStart(i), WinStart(i + 1))

C2_Witness ==
  /\ sp_pc = "returned" /\ ValidCall
  /\ Len(result) >= 3
  /\ \A i \in Windows : i < Len(result) => result[i][2] = result[i + 1][1]

\* The latest end the claim allows a window that starts at s: s advanced by
\* interval_years calendar years, or s + 365 * interval_years days for a
\* Feb-29 start whose target year is not a leap year.
WithinBound(s, e, n) ==
  IF s.month = 2 /\ s.day = 29 /\ ~IsLeap(s.year + n)
    THEN ToOrdinal(e) <= ToOrdinal(s) + 365 * n
    ELSE ~DateLess(Date(s.day, s.month, s.year + n), e)

\* C3: no window spans more than interval_years calendar years (365 *
\* interval_years days where the calendar advance is undefined).
C3_WindowBound ==
  (sp_pc # "idle" /\ ValidCall) =>
     \A i \in Windows : WithinBound(WinStart(i), WinEnd(i), interval_years)

C3_Witness ==
  /\ sp_pc = "returned" /\ ValidCall
  /\ \E i \in Windows :
        /\ WinStart(i).month = 2 /\ WinStart(i).day = 29
        /\ ~IsLeap(WinStart(i).year + interval_years)
        /\ ToOrdinal(WinEnd(i)) = ToOrdinal(WinStart(i)) + 365 * interval_years
  /\ \E j \in Windows :
        WinEnd(j) = Date(WinStart(j).day, WinStart(j).month,
                         WinStart(j).year + interval_years)

LeapCall ==
  /\ sp_pc # "idle"
  /\ start_date = Date(29, 2, 2016)
  /\ end_date = Date(29, 2, 2024)
  /\ interval_years = 4

\* C4 as stated: split_date_range("29/02/2016", "29/02/2024", 4) takes the
\* 365*4-day fallback for its first step; the first window ends at
\* 2016-02-29 + 1460 days and not at a Feb-28/Feb-29 2020 date.
C4_AsStated ==
  (LeapCall /\ Len(result) >= 1) =>
     /\ fallbacks[1]
     /\ WinEnd(1) = AddDays(start_date, 365 * 4)
     /\ WinEnd(1) \notin {Date(28, 2, 2020), Date(29, 2, 2020)}

\* C4 as amended: split_date_range("29/02/2016", "29/02/2024", 4) does not
\* take the fallback for its first step, because 2020 is a leap year and
\* 2016-02-29 advanced by 4 calendar years is 2020-02-29; the first
\* window's end is 29/02/2020, produced by year replacement, and not
\* 2016-02-29 + 1460 days (which is 28/02/2020).
C4_LeapReplace ==
  (LeapCall /\ Len(result) >= 1) =>
     /\ ~fallbacks[1]
     /\ result[1] = <<<<29, 2, 2016>>, <<29, 2, 2020>>>>
     /\ WinEnd(1) # AddDays(start_date, 365 * 4)

C4_Witness ==
  /\ LeapCall
  /\ sp_pc = "returned"
  /\ result = << <<<<29, 2, 2016>>, <<29, 2, 2020>>>>,
                 <<<<29, 2, 2020>>, <<29, 2, 2024>>>> >>
  /\ fallbacks = <<FALSE, FALSE>>

\* C5: for start < end and interval_years >= 1 the cursor strictly
\* increases on every iteration, and the call returns after finitely many
\* iterations, with the cursor at end_date.
C5_Terminates ==
  /\ [][(sp_pc = "loop" /\ sp_pc' = "loop" /\ ValidCall)
           => DateLess(current_start, current_start')]_vars
  /\ []((sp_pc = "returned" /\ ValidCall) => current_start = end_date)
  /\ (sp_pc = "loop" /\ ValidCall) ~> (sp_pc = "returned")

C5_Witness ==
  /\ sp_pc = "returned" /\ ValidCall
  /\ Len(result) >= 4
  /\ current_start = end_date

\* C6: when start_date >= end_date the loop body never runs and the empty
\* list is returned.
C6_EmptyWhenNotBefore ==
  (sp_pc # "idle" /\ ~DateLess(start_date, end_date)) =>
     /\ result = <<>>
     /\ current_start = start_date

C6_Witness ==
  /\ sp_pc = "returned"
  /\ DateLess(end_date, start_date)
  /\ result = <<>>

\* C7: every window is non-degenerate and inside the request:
\* start < end, end <= end_date and start >= start_date.
C7_WindowInside ==
  (sp_pc # "idle" /\ ValidCall) =>
     \A i \in Windows :
        /\ DateLess(WinStart(i), WinEnd(i))
        /\ ~DateLess(end_date, WinEnd(i))
        /\ ~DateLess(WinStart(i), start_date)

C7_Witness ==
  /\ sp_pc = "returned" /\ ValidCall
  /\ Len(result) >= 2
  /\ DateLess(start_date, WinStart(Len(result)))
  /\ DateLess(WinEnd(1), end_date)
  /\ \A i \in Windows : DateLess(WinStart(i), WinEnd(i))

(***************************************************************************)
(* One call of ler_csv on a locator whose reads follow a script.           *)
(***************************************************************************)
InitFetch == SplitIdle /\ LerIdle /\ AdapterIdle /\ amb = AmbFull /\ OrqIdle

LerCsvCall ==
  /\ lc_pc["c1"] = "idle"
  /\ \E script \in amb.roteiros, tab \in Served(<<"url">>) :
       LerCsvEnter("c1", script, tab)
  /\ UNCHANGED <<splitVars, adVars>>
  /\ UNCHANGED <<amb, orqVars>>

NextFetch ==
  \/ LerCsvCall
  \/ LerCsvRead("c1")
  \/ LerCsvPrint("c1")
  \/ LerCsvSleep("c1")
  \/ LerCsvGiveUp("c1")

SpecFetch == InitFetch /\ [][NextFetch]_vars

\* The whole script of call c: what was read, then what is left.
Script(c) == leituras[c] \o fonte[c]

\* The first read of the script that succeeds (0: none).
FirstOk(sc) ==
  IF \E i \in 1 .. Len(sc) : sc[i] = "ok"
    THEN CHOOSE i \in 1 .. Len(sc) :
           sc[i] = "ok" /\ \A j \in 1 .. (i - 1) : sc[j] = "falha"
    ELSE 0

Failures(seq) == Cardinality({i \in 1 .. Len(seq) : seq[i] = "falha"})

\* C8: if the read fails on the first k attempts (0 <= k < 5) and succeeds
\* on attempt k+1, ler_csv returns that table, has counted exactly k
\* failures and has read exactly k+1 times: nothing is read after the
\* success.
C8_ShortCircuit ==
  \A c \in Calls :
    LET k1 == FirstOk(Script(c)) IN
      (lc_pc[c] # "idle" /\ k1 \in 1 .. MaxTentativas) =>
         /\ Len(leituras[c]) <= k1
         /\ lc_pc[c] = "returned" =>
              /\ retorno[c] = tabela[c]
              /\ tentativas[c] = k1 - 1
              /\ Failures(leituras[c]) = k1 - 1
              /\ Len(leituras[c]) = k1
              /\ leituras[c][k1] = "ok"

C8_Witness ==
  /\ lc_pc["c1"] = "returned"
  /\ leituras["c1"] = <<"falha", "falha", "ok">>
  /\ tentativas["c1"] = 2
  /\ retorno["c1"] = tabela["c1"]
  /\ fonte["c1"] # <<>>

\* C9: if the read raises on every attempt, ler_csv reads exactly 5 times,
\* then returns None; the attempt counter is between 0 and 5 in every
\* state and a 6th read never happens.
C9_Exhaustion ==
  \A c \in Calls :
    /\ tentativas[c] \in 0 .. MaxTentativas
    /\ Len(leituras[c]) <= MaxTentativas
    /\ (lc_pc[c] = "returned"
          /\ \A i \in 1 .. MaxTentativas : Script(c)[i] = "falha") =>
         /\ retorno[c] = None
         /\ Len(leituras[c]) = MaxTentativas
         /\ tentativas[c] = MaxTentativas
    /\ (lc_pc[c] = "returned" /\ retorno[c] = None) =>
         /\ Len(leituras[c]) = MaxTentativas
         /\ \A i \in 1 .. MaxTentativas : leituras[c][i] = "falha"

C9_Witness ==
  /\ lc_pc["c1"] = "returned"
  /\ retorno["c1"] = None
  /\ leituras["c1"] = <<"falha", "falha", "falha", "falha", "falha">>
  /\ fonte["c1"] = <<"falha">>
  /\ tentativas["c1"] = MaxTentativas

(***************************************************************************)
(* One call of an adapter.                                                 *)
(***************************************************************************)
Series == {<<"433", "ipca">>, <<"1", "cambio">>}
Freqs == {"Diária", "Mensal"}

\* <<data_inicio, data_fim>> that give no, one and two windows of
\* DefaultIntervalYears years.
SgsSpans ==
  { << <<15, 6, 2016>>, <<15, 6, 2016>> >>,
    << <<31, 12, 2021>>, <<1, 1, 2016>> >>,
    << <<1, 1, 2016>>, <<15, 6, 2016>> >>,
    << <<1, 1, 2016>>, <<31, 12, 2021>> >> }

InitAdapter ==
  SplitIdle /\ LerIdle /\ AdapterIdle /\ amb = AmbFull /\ OrqIdle

AdapterCall ==
  /\ ad_pc = "idle"
  /\ \E fn \in Adapters, ser \in Series :
       IF fn = "coleta_bcb_sgs"
         THEN \E fr \in Freqs, per \in SgsSpans : AdapterEnter(fn, ser, fr, per)
         ELSE AdapterEnter(fn, ser, "-", NoSpan)
  /\ UNCHANGED <<splitVars, lerVars>>
  /\ UNCHANGED <<amb, orqVars>>

NextAdapter ==
  \/ AdapterCall
  \/ SgsSplit
  \/ SplitIterate
  \/ SplitReturn
  \/ SgsSplitReturned
  \/ SgsSingleWindow
  \/ SgsRequest
  \/ LerCsvRead("c1")
  \/ LerCsvPrint("c1")
  \/ LerCsvSleep("c1")
  \/ LerCsvGiveUp("c1")
  \/ SgsAppend
  \/ SgsConcat
  \/ CsvRequest
  \/ CsvAssign
  \/ DirectRead
  \/ AdapterElse

SpecAdapter == InitAdapter /\ [][NextAdapter]_vars

\* C10: in every adapter an exception raised inside the try block is
\* replaced by the collection-failed error naming the series code and
\* name; the original exception does not leave the adapter.
C10_GuardReplaces ==
  /\ capturada # NoException =>
       /\ ad_pc = "raised"
       /\ ad_exc = CollectionFailed(serie)
       /\ ad_exc.kind = "Exception"
       /\ ad_exc.msg[2] = serie[1] /\ ad_exc.msg[3] = serie[2]
       /\ ad_exc # capturada
       /\ ad_ret = NotReturned
  \* any other exception that leaves an adapter was raised after the try
  \* block had ended normally
  /\ (ad_pc = "raised" /\ ad_exc # CollectionFailed(serie)) =>
       /\ capturada = NoException
       /\ resposta # NotReturned

C10_Witness ==
  /\ ad_pc = "raised"
  /\ ad_fn = "coleta_ipeadata"
  /\ capturada = Raised("ReadError")
  /\ ad_exc = CollectionFailed(serie)

\* C11: when ler_csv hands None to coleta_bcb_odata or to coleta_fred (the
\* read failed on all its attempts), the adapter ends by raising the
\* collection-failed error of the series.
C11_AsStated ==
  (ad_fn \in LerCsvAdapters /\ resposta = None
     /\ ad_pc \in {"returned", "raised"}) =>
       /\ ad_pc = "raised"
       /\ ad_exc = CollectionFailed(serie)

\* C12: in coleta_bcb_sgs for a daily series split into several windows,
\* if ler_csv returned None for at least one window while other windows
\* were read, the adapter raises the collection-failed error; it never
\* returns a table that lacks the rows of a failed window.
C12_AsStated ==
  (ad_fn = "coleta_bcb_sgs" /\ freq = "Diária" /\ Len(datas_inicio) >= 2
     /\ ad_pc \in {"returned", "raised"}
     /\ \E i \in 1 .. Len(respostas) : respostas[i] = None
     /\ \E j \in 1 .. Len(respostas) : respostas[j] # None) =>
       /\ ad_pc = "raised"
       /\ ad_exc = CollectionFailed(serie)
       /\ ad_ret = NotReturned

\* C13: the only exception that leaves any of the six adapters is the
\* collection-failed error of the series; a failure of the normalization
\* after a successful read (a missing column, a value that is not numeric)
\* is reported as that error too.
C13_AsStated ==
  ad_pc = "raised" => ad_exc = CollectionFailed(serie)

\* The reads the running adapter made of its source, and what the source
\* would have answered next.
ReadsMade == IF ad_fn \in DirectAdapters THEN ad_leituras ELSE leituras["c1"]
ReadsLeft == IF ad_fn \in DirectAdapters THEN ad_fonte ELSE fonte["c1"]
FetchOver == ad_pc \in {"else", "returned", "raised"}

\* C14: in each of the six adapters a read that fails and would succeed on
\* the next attempt is retried, up to 5 attempts in all; the adapter gives
\* up reading, and reports a read failure to its caller, only when all 5
\* attempts have failed.
C14_AsStated ==
  /\ (FetchOver /\ ReadsMade # <<>> /\ ReadsMade[Len(ReadsMade)] = "falha"
        /\ ReadsLeft # <<>> /\ Head(ReadsLeft) = "ok") =>
          Len(ReadsMade) = MaxTentativas
  /\ (ad_pc = "raised" /\ capturada = Raised("ReadError")) =>
          /\ Len(ReadsMade) = MaxTentativas
          /\ \A i \in 1 .. Len(ReadsMade) : ReadsMade[i] = "falha"

\* C15: coleta_bcb_sgs fragments only daily series.  For freq 'Diária' the
\* requests made through ler_csv are, one for one and in the same
\* (chronological) order, the windows split_date_range returned, each
\* request carrying the start and the end of its window; for any other
\* frequency there is exactly one request, with data_inicio and data_fim.
C15_OneRequestPerWindow ==
  (ad_fn = "coleta_bcb_sgs"
     /\ ad_pc \in {"loop", "ler_csv", "else", "returned", "raised"}) =>
       LET alvo == IF freq = "Diária" THEN result ELSE <<periodo>> IN
         /\ Len(pedidos) <= Len(alvo)
         /\ \A i \in 1 .. Len(pedidos) :
              pedidos[i] = <<serie[1], alvo[i][1], alvo[i][2]>>
         /\ FetchOver => Len(pedidos) = Len(alvo)
         /\ \A i \in 1 .. Len(pedidos), j \in 1 .. Len(pedidos) :
              i < j => DateLess(Strptime(pedidos[i][2]),
                                Strptime(pedidos[j][2]))

C15_Witness ==
  /\ ad_fn = "coleta_bcb_sgs"
  /\ freq = "Diária"
  /\ ad_pc = "returned"
  /\ Len(result) = 2
  /\ pedidos = << <<serie[1], <<1, 1, 2016>>, <<1, 1, 2021>> >>,
                  <<serie[1], <<1, 1, 2021>>, <<31, 12, 2021>> >> >>

\* C16: when every window of a daily series was served in full, the table
\* coleta_bcb_sgs returns has strictly increasing timestamps: they are in
\* date order and none occurs twice, the date two consecutive windows
\* share included.
C16_AsStated ==
  (ad_fn = "coleta_bcb_sgs" /\ freq = "Diária" /\ ad_pc = "returned"
     /\ \A k \in 1 .. Len(respostas) : respostas[k] # None) =>
       \A i \in 1 .. Len(ad_ret.linhas), j \in 1 .. Len(ad_ret.linhas) :
         i < j => DateLess(ad_ret.linhas[i][1], ad_ret.linhas[j][1])

(***************************************************************************)
(* The collection script, src/03-coleta.py: five loops over the rows of    *)
(* the metadata sheet, one per source, then the single call of coleta_ifi. *)
(* A row is [Fonte, Forma, Frequencia, Input, Identificador].  The read of *)
(* the sheet itself (lines 17-21) is taken to succeed.                     *)
(***************************************************************************)
Secoes == <<"bcb_sgs", "bcb_odata", "ipeadata", "ibge_sidra", "fred">>

\* lines 31, 60, 85, 110, 135: the Fonte each section selects
FonteDe(sec) ==
  CASE sec = "bcb_sgs" -> "BCB/SGS"
    [] sec = "bcb_odata" -> "BCB/ODATA"
    [] sec = "ipeadata" -> "IPEADATA"
    [] sec = "ibge_sidra" -> "IBGE/SIDRA"
    [] sec = "fred" -> "FRED"

\* lines 43, 70, 95, 120, 145: the adapter each loop calls
AdapterDe(sec) ==
  CASE sec = "bcb_sgs" -> "coleta_bcb_sgs"
    [] sec = "bcb_odata" -> "coleta_bcb_odata"
    [] sec = "ipeadata" -> "coleta_ipeadata"
    [] sec = "ibge_sidra" -> "coleta_ibge_sidra"
    [] sec = "fred" -> "coleta_fred"

\* lines 36, 89, 114, 139: the keys of the dictionaries of lists
Chaves(sec) ==
  CASE sec = "bcb_sgs" -> {"Diária", "Mensal", "Trimestral", "Anual"}
    [] sec = "ipeadata" -> {"Diária", "Mensal"}
    [] sec = "ibge_sidra" -> {"Mensal", "Trimestral"}
    [] sec = "fred" -> {"Diária", "Mensal", "Trimestral"}

\* lines 36, 64, 89, 114, 139: the empty container of a section;
\* df_bruto_bcb_odata is a plain list
Vazio(sec) ==
  IF sec = "bcb_odata" THEN <<>> ELSE [k \in Chaves(sec) |-> <<>>]

\* lines 31, 60, 85, 110, 135: the query of a loop section
Query(sec, row) == row.Fonte = FonteDe(sec) /\ row.Forma = "API"

\* line 160: the query of the IFI section
QueryIfi(row) == row.Fonte = "IFI"

Positions == [i \in 1 .. Len(metadados) |-> i]

\* lines 29-33 (and 58-62, 83-87, 108-112, 133-137): the selected rows, as
\* their positions in the sheet, in sheet order
InputDe(sec) == SelectSeq(Positions, LAMBDA i : Query(sec, metadados[i]))

\* lines 158-162
InputIfi == SelectSeq(Positions, LAMBDA i : QueryIfi(metadados[i]))

ProximaSecao(sec) ==
  CASE sec = "bcb_sgs" -> "bcb_odata"
    [] sec = "bcb_odata" -> "ipeadata"
    [] sec = "ipeadata" -> "ibge_sidra"
    [] sec = "ibge_sidra" -> "fred"
    [] sec = "fred" -> "ifi"

EmLaco == orq_pc \in {Secoes[k] : k \in 1 .. Len(Secoes)}

\* 02-funcoes.py line 31: data_inicio = "01/01/2000"
DataInicioPadrao == <<1, 1, 2000>>

\* Variant: the reads and the windows of a finished call stay in progress.
CallEndsAdapterOnly ==
  /\ ad_pc' = "idle"
  /\ ad_fn' = "-"
  /\ serie' = <<"-", "-">>
  /\ freq' = "-"
  /\ periodo' = NoSpan
  /\ datas_inicio' = <<>>
  /\ ad_i' = 0
  /\ pedidos' = <<>>
  /\ respostas' = <<>>
  /\ resposta' = NotReturned
  /\ capturada' = NoException
  /\ ad_exc' = NoException
  /\ ad_ret' = NotReturned
  /\ ad_leituras' = <<>>
  /\ ad_fonte' = <<>>
  /\ UNCHANGED <<splitVars, lerVars>>

\* The activations of a finished call are gone: the state of the adapter,
\* of split_date_range and of ler_csv is again as before a call.
CallEnds ==
  /\ ad_pc' = "idle"
  /\ ad_fn' = "-"
  /\ serie' = <<"-", "-">>
  /\ freq' = "-"
  /\ periodo' = NoSpan
  /\ datas_inicio' = <<>>
  /\ ad_i' = 0
  /\ pedidos' = <<>>
  /\ respostas' = <<>>
  /\ resposta' = NotReturned
  /\ capturada' = NoException
  /\ ad_exc' = NoException
  /\ ad_ret' = NotReturned
  /\ ad_leituras' = <<>>
  /\ ad_fonte' = <<>>
  /\ sp_pc' = "idle"
  /\ start_date' = NoDate
  /\ end_date' = NoDate
  /\ interval_years' = 0
  /\ current_start' = NoDate
  /\ result' = <<>>
  /\ fallbacks' = <<>>
  /\ lc_pc' = [c \in Calls |-> "idle"]
  /\ tentativas' = [c \in Calls |-> 0]
  /\ retorno' = [c \in Calls |-> NotReturned]
  /\ fonte' = [c \in Calls |-> <<>>]
  /\ tabela' = [c \in Calls |-> None]
  /\ leituras' = [c \in Calls |-> <<>>]
  /\ espera' = [c \in Calls |-> 0]
  /\ log' = [c \in Calls |-> <<>>]

\* Variant: the script stays in its loop after an exception.
AfterRaiseStays(sec) == sec

\* No statement of the script is inside a try block: an exception of a
\* call (lines 43, 70, 95, 120, 145, 165) ends the script.
AfterRaise(sec) == "aborted"

\* lines 17-36: the sheet is read; the first section starts
OrqLoad(m, fim) ==
  /\ orq_pc = "idle"
  /\ metadados' = m
  /\ data_fim_padrao' = fim
  /\ orq_pc' = "bcb_sgs"
  /\ orq_i' = 1
  /\ df_bruto' = ("bcb_sgs" :> Vazio("bcb_sgs"))
  /\ UNCHANGED <<chamadas, orq_exc>>
  /\ UNCHANGED <<splitVars, lerVars, adVars, amb>>

\* lines 39-47 (67-73, 92-98, 117-123, 142-148): the adapter of the section
\* is called for the next selected row; only coleta_bcb_sgs gets freq, and
\* it gets no dates
OrqInvoke ==
  /\ EmLaco
  /\ ad_pc = "idle"
  /\ orq_i <= Len(InputDe(orq_pc))
  /\ LET pos == InputDe(orq_pc)[orq_i]
         ser == metadados[pos]
         fn  == AdapterDe(orq_pc)
     IN /\ IF fn = "coleta_bcb_sgs"
             THEN AdapterEnter(fn, <<ser.Input, ser.Identificador>>,
                               ser.Frequencia,
                               <<DataInicioPadrao, data_fim_padrao>>)
             ELSE AdapterEnter(fn, <<ser.Input, ser.Identificador>>,
                               "-", NoSpan)
        /\ chamadas' = Append(chamadas, <<fn, pos>>)
  /\ UNCHANGED <<metadados, data_fim_padrao, orq_pc, orq_i, df_bruto, orq_exc>>
  /\ UNCHANGED <<splitVars, lerVars, amb>>

\* Variant: every table goes to the monthly list.
BucketKeyMensal(ser) == "Mensal"

\* lines 50, 100, 125, 150: ser["Frequência"], the key of the list
BucketKey(ser) == ser.Frequencia

\* lines 50, 75, 100, 125, 150: the returned table is appended to the list
\* of the row's frequency; a frequency that is not a key of the dictionary
\* raises KeyError
OrqAppend ==
  /\ EmLaco
  /\ ad_pc = "returned"
  /\ LET ser == metadados[InputDe(orq_pc)[orq_i]] IN
       CASE orq_pc = "bcb_odata" ->
              /\ df_bruto' = [df_bruto EXCEPT ![orq_pc] = Append(@, ad_ret)]
              /\ orq_i' = orq_i + 1
              /\ UNCHANGED <<orq_pc, orq_exc>>
         [] orq_pc # "bcb_odata" /\ BucketKey(ser) \in Chaves(orq_pc) ->
              /\ df_bruto' = [df_bruto EXCEPT
                                ![orq_pc][BucketKey(ser)] = Append(@, ad_ret)]
              /\ orq_i' = orq_i + 1
              /\ UNCHANGED <<orq_pc, orq_exc>>
         [] orq_pc # "bcb_odata" /\ BucketKey(ser) \notin Chaves(orq_pc) ->
              /\ orq_exc' = Raised("KeyError")
              /\ orq_pc' = AfterRaise(orq_pc)
              /\ UNCHANGED <<df_bruto, orq_i>>
  /\ CallEnds
  /\ UNCHANGED <<metadados, data_fim_padrao, chamadas, amb>>

\* the exception an adapter raised leaves the script
OrqPropagate ==
  /\ orq_pc \notin {"idle", "done", "aborted"}
  /\ ad_pc = "raised"
  /\ orq_exc' = ad_exc
  /\ orq_pc' = AfterRaise(orq_pc)
  /\ UNCHANGED <<metadados, data_fim_padrao, orq_i, df_bruto, chamadas>>
  /\ UNCHANGED <<splitVars, lerVars, adVars, amb>>

\* the loop of a section is over; lines 58-64 (83-89, 108-114, 133-139,
\* 158-162): the next section starts
OrqNextSection ==
  /\ EmLaco
  /\ ad_pc = "idle"
  /\ orq_i > Len(InputDe(orq_pc))
  /\ orq_pc' = ProximaSecao(orq_pc)
  /\ orq_i' = 1
  /\ df_bruto' = IF orq_pc = "fred"
                   THEN df_bruto
                   ELSE df_bruto @@ (ProximaSecao(orq_pc) :>
                                       Vazio(ProximaSecao(orq_pc)))
  /\ UNCHANGED <<metadados, data_fim_padrao, chamadas, orq_exc>>
  /\ UNCHANGED <<splitVars, lerVars, adVars, amb>>

\* Variant: the last selected row.
LinhaIfiUltima == InputIfi[Len(InputIfi)]

\* lines 166-167: input_ifi[...][0], the first selected row
LinhaIfi == InputIfi[1]

\* lines 165-168: coleta_ifi is called with the first selected row; with
\* no selected row, input_ifi["Input de Coleta"][0] raises KeyError
OrqIfiInvoke ==
  /\ orq_pc = "ifi"
  /\ ad_pc = "idle"
  /\ orq_i = 1
  /\ IF InputIfi = <<>>
       THEN /\ orq_exc' = Raised("KeyError")
            /\ orq_pc' = AfterRaise(orq_pc)
            /\ UNCHANGED <<chamadas, orq_i, adVars>>
       ELSE LET ser == metadados[LinhaIfi] IN
              /\ AdapterEnter("coleta_ifi", <<ser.Input, ser.Identificador>>,
                              "-", NoSpan)
              /\ chamadas' = Append(chamadas, <<"coleta_ifi", LinhaIfi>>)
              /\ orq_i' = 2
              /\ UNCHANGED <<orq_pc, orq_exc>>
  /\ UNCHANGED <<metadados, data_fim_padrao, df_bruto>>
  /\ UNCHANGED <<splitVars, lerVars, amb>>

\* line 165: df_bruto_ifi is bound; the script ends
OrqIfiAssign ==
  /\ orq_pc = "ifi"
  /\ ad_pc = "returned"
  /\ df_bruto' = df_bruto @@ ("ifi" :> ad_ret)
  /\ orq_pc' = "done"
  /\ CallEnds
  /\ UNCHANGED <<metadados, data_fim_padrao, orq_i, chamadas, orq_exc, amb>>

(***************************************************************************)
(* One run of the collection script.                                       *)
(***************************************************************************)
MaxSeries == 2

\* The kinds of row of the sheet: Fonte, Forma de Coleta, Frequência.
Linhas ==
  { <<"BCB/SGS", "API", "Diária">>,
    <<"BCB/SGS", "API", "Mensal">>,
    <<"BCB/SGS", "Manual", "Mensal">>,
    <<"BCB/ODATA", "API", "Mensal">>,
    <<"IPEADATA", "API", "Mensal">>,
    <<"IPEADATA", "API", "Trimestral">>,
    <<"IBGE/SIDRA", "API", "Trimestral">>,
    <<"FRED", "API", "Diária">>,
    <<"FRED", "API", "Anual">>,
    <<"IFI", "API", "Trimestral">>,
    <<"IFI", "Manual", "Trimestral">>,
    <<"OUTRA", "API", "Mensal">> }

\* The sheets: up to MaxSeries rows; the row at position i has its own
\* Input de Coleta and Identificador.
Metadados ==
  UNION {[1 .. n -> Linhas] : n \in 1 .. MaxSeries}

Sheet(ks) ==
  [i \in 1 .. Len(ks) |->
     [Fonte |-> ks[i][1], Forma |-> ks[i][2], Frequencia |-> ks[i][3],
      Input |-> <<"input", i>>, Identificador |-> <<"id", i>>]]

\* 02-funcoes.py line 31: data_fim = today + 36 months, as a string
DatasFimPadrao == {<<1, 1, 2030>>, <<3, 11, 2029>>}

\* The sources of a run of the script: a read succeeds at once or fails
\* once and then succeeds (ler_csv retries it; a direct read does not), and
\* the tables have the expected columns.
AmbOrq ==
  [roteiros |-> {[i \in 1 .. ScriptLen |-> "ok"],
                 [i \in 1 .. ScriptLen |-> IF i = 1 THEN "falha" ELSE "ok"]},
   colunas |-> {"expected"},
   valores |-> {<<"100", "...">>}]

InitOrq == SplitIdle /\ LerIdle /\ AdapterIdle /\ amb = AmbOrq /\ OrqIdle

OrqRun ==
  /\ orq_pc = "idle"
  /\ \E ks \in Metadados, fim \in DatasFimPadrao : OrqLoad(Sheet(ks), fim)

NextOrq ==
  \/ OrqRun
  \/ OrqInvoke
  \/ SgsSplit
  \/ SplitIterate
  \/ SplitReturn
  \/ SgsSplitReturned
  \/ SgsSingleWindow
  \/ SgsRequest
  \/ LerCsvRead("c1")
  \/ LerCsvPrint("c1")
  \/ LerCsvSleep("c1")
  \/ SgsAppend
  \/ SgsConcat
  \/ CsvRequest
  \/ CsvAssign
  \/ DirectRead
  \/ AdapterElse
  \/ OrqAppend
  \/ OrqPropagate
  \/ OrqNextSection
  \/ OrqIfiInvoke
  \/ OrqIfiAssign

SpecOrq == InitOrq /\ [][NextOrq]_vars

\* The row of the sheet for which the running adapter was called.
Chamada == chamadas[Len(chamadas)]
LinhaChamada == metadados[Chamada[2]]

\* data_fim is the day data_inicio falls on exactly 30 calendar years
\* later, and data_inicio is not a 29 February.
Span30 ==
  /\ periodo[2][3] = periodo[1][3] + 30
  /\ periodo[2][1] = periodo[1][1]
  /\ periodo[2][2] = periodo[1][2]
  /\ ~(periodo[1][1] = 29 /\ periodo[1][2] = 2)

FontesConhecidas ==
  {"BCB/SGS", "BCB/ODATA", "IPEADATA", "IBGE/SIDRA", "FRED", "IFI"}

\* C18: an adapter is called only for rows of the sheet whose Forma de
\* Coleta is 'API' and whose Fonte is one of the six sources; for every
\* source, IFI included, a row collected in another way is never passed
\* to an adapter.
C18_AsStated ==
  \A k \in 1 .. Len(chamadas) :
    /\ metadados[chamadas[k][2]].Forma = "API"
    /\ metadados[chamadas[k][2]].Fonte \in FontesConhecidas

\* The row has no destination: its Fonte is none of the six, or its
\* Frequência is not a key of the dictionary of its source.
SemDestino(row) ==
  \/ row.Fonte \notin FontesConhecidas
  \/ \E k \in 1 .. Len(Secoes) :
       /\ Secoes[k] # "bcb_odata"
       /\ row.Fonte = FonteDe(Secoes[k])
       /\ row.Frequencia \notin Chaves(Secoes[k])

\* C19: a row whose (Fonte, Frequência) has no destination is skipped
\* silently: no adapter is called for it and it raises no error, the
\* script goes on with the other rows.
C19_AsStated ==
  /\ \A k \in 1 .. Len(chamadas) : ~SemDestino(metadados[chamadas[k][2]])
  /\ ~(/\ orq_pc = "aborted"
       /\ orq_exc = Raised("KeyError")
       /\ chamadas # <<>>
       /\ SemDestino(LinhaChamada))

\* The call that raised is the last call made.
AbortState ==
  (orq_pc = "aborted" /\ ad_pc = "raised") =>
     /\ orq_exc = ad_exc
     /\ chamadas # <<>>
     /\ Chamada[1] = ad_fn
     /\ serie = <<LinhaChamada.Input, LinhaChamada.Identificador>>

AbortStep ==
  /\ (ad_pc = "raised" /\ ad_exc = CollectionFailed(serie)) =>
       /\ orq_pc' = "aborted"
       /\ orq_exc' = ad_exc
       /\ chamadas' = chamadas
       /\ df_bruto' = df_bruto
  /\ orq_pc = "aborted" => UNCHANGED <<orq_pc, orq_exc, chamadas, df_bruto>>

\* C20: when an adapter raises the collection-failed error of a series,
\* the error leaves the script and ends the run: from then on no adapter
\* is called and nothing is appended to any container.
C20_AbortsRun == []AbortState /\ [][AbortStep]_vars

C20_Witness ==
  /\ orq_pc = "aborted"
  /\ orq_exc = CollectionFailed(<<metadados[1].Input,
                                  metadados[1].Identificador>>)
  /\ Len(metadados) = 2
  /\ metadados[1].Fonte = "IPEADATA"
  /\ metadados[2].Fonte = "FRED" /\ metadados[2].Forma = "API"
  /\ metadados[2].Frequencia = "Diária"
  /\ chamadas = << <<"coleta_ipeadata", 1>> >>
  /\ df_bruto["ipeadata"]["Mensal"] = <<>>

\* The sections whose container is a dictionary of lists.
Bucketed == {"bcb_sgs", "ipeadata", "ibge_sidra", "fred"}

\* The row of the sheet a table was requested for: every locator of the
\* table starts with the row's Input de Coleta.
RowOf(tab) == tab.blocos[1][1][2]

BucketRows(sec, k) ==
  [i \in 1 .. Len(df_bruto[sec][k]) |-> RowOf(df_bruto[sec][k][i])]

\* The selected rows of a section whose call has returned and whose table
\* has been stored.
Collected(sec) ==
  IF orq_pc = sec THEN SubSeq(InputDe(sec), 1, orq_i - 1) ELSE InputDe(sec)

IsPrefix(a, b) == Len(a) <= Len(b) /\ a = SubSeq(b, 1, Len(a))

BucketState ==
  \A sec \in Bucketed \cap DOMAIN df_bruto : \A k \in Chaves(sec) :
    /\ \A i \in 1 .. Len(df_bruto[sec][k]) :
         LET row == metadados[BucketRows(sec, k)[i]] IN
           /\ row.Fonte = FonteDe(sec)
           /\ row.Frequencia = k
           /\ \A j \in 1 .. Len(df_bruto[sec][k]) :
                i < j => BucketRows(sec, k)[i] < BucketRows(sec, k)[j]
    /\ orq_pc # "aborted" =>
         BucketRows(sec, k) =
           SelectSeq(Collected(sec), LAMBDA p : metadados[p].Frequencia = k)

BucketStep ==
  \A sec \in Bucketed \cap DOMAIN df_bruto : \A k \in Chaves(sec) :
    IsPrefix(df_bruto[sec][k], df_bruto'[sec][k])

\* C21: for BCB/SGS, IPEADATA, IBGE/SIDRA and FRED, the table of every
\* collected row is exactly once in the list keyed by the frequency of the
\* row and in no other list; the tables of a list are in the order of
\* their rows in the sheet; a list only grows at its end.
C21_Buckets == []BucketState /\ [][BucketStep]_vars

C21_Witness ==
  /\ orq_pc = "ifi"
  /\ Len(metadados) = 2
  /\ \A i \in 1 .. 2 :
       /\ metadados[i].Fonte = "FRED" /\ metadados[i].Forma = "API"
       /\ metadados[i].Frequencia = "Diária"
  /\ BucketRows("fred", "Diária") = <<1, 2>>
  /\ df_bruto["fred"]["Mensal"] = <<>>
  /\ df_bruto["fred"]["Trimestral"] = <<>>

\* The rows of the table coleta_ibge_sidra read whose value is none of the
\* three tokens.
SidraKept ==
  SelectSeq(resposta.linhas, LAMBDA r : r[2] \notin {"Valor", "...", "-"})

SidraRead ==
  /\ ad_fn = "coleta_ibge_sidra"
  /\ IsTable(resposta)
  /\ resposta.cols = "expected"

C23_AsStated ==
  (SidraRead /\ ad_pc \in {"returned", "raised"}) =>
     /\ ad_pc = "returned"
     /\ Len(ad_ret.linhas) = Len(SidraKept)

(***************************************************************************)
(* Two calls of ler_csv on independent locators, running at once: their    *)
(* steps interleave in every way.                                          *)
(***************************************************************************)
\* The sources of the two calls: the read fails k times, then succeeds
\* (k = ScriptLen: it always fails).
AmbConc ==
  [roteiros |-> {[i \in 1 .. ScriptLen |-> IF i <= k THEN "falha" ELSE "ok"] :
                   k \in 0 .. ScriptLen},
   colunas |-> Columns,
   valores |-> {<<>>}]

InitConc == SplitIdle /\ LerIdle /\ AdapterIdle /\ amb = AmbConc /\ OrqIdle

LerCsvCallOn(c) ==
  /\ lc_pc[c] = "idle"
  /\ \E script \in amb.roteiros, tab \in Served(<<"url", c>>) :
       LerCsvEnter(c, script, tab)
  /\ UNCHANGED <<splitVars, adVars>>
  /\ UNCHANGED <<amb, orqVars>>

NextConc ==
  \E c \in Calls :
    \/ LerCsvCallOn(c)
    \/ LerCsvRead(c)
    \/ LerCsvPrint(c)
    \/ LerCsvSleep(c)
    \/ LerCsvGiveUp(c)

SpecConc == InitConc /\ [][NextConc]_vars

\* What call c holds.
Activation(c) ==
  <<lc_pc[c], tentativas[c], retorno[c], fonte[c], tabela[c], leituras[c],
    espera[c], log[c]>>

OwnOutcome ==
  \A c \in Calls :
    /\ tentativas[c] <= 5
    /\ Len(leituras[c]) <= 5
    /\ tentativas[c] = Failures(leituras[c])
    /\ lc_pc[c] # "idle" => tabela[c].blocos = << <<"url", c>> >>
    /\ lc_pc[c] = "returned" =>
         retorno[c] = IF \E i \in 1 .. 5 : Script(c)[i] = "ok"
                        THEN tabela[c] ELSE None

OwnStep ==
  /\ \E c \in Calls : \A d \in Calls \ {c} : Activation(d)' = Activation(d)
  /\ UNCHANGED <<splitVars, adVars, amb, orqVars>>

\* C24: two calls of ler_csv that run at once on independent locators, in
\* any interleaving of their attempts and waits, each make at most 5
\* attempts, each count their own failures only and each return what their
\* own locator's reads determine; a step of one call changes nothing of
\* the other call and nothing outside the calls.
C24_Independent == []OwnOutcome /\ [][OwnStep]_vars

C24_Witness ==
  /\ lc_pc["c1"] = "sleep" /\ tentativas["c1"] = 5
  /\ lc_pc["c2"] = "returned" /\ tentativas["c2"] = 2
  /\ retorno["c2"] = tabela["c2"]
  /\ leituras["c2"] = <<"falha", "falha", "ok">>

\* The lines ler_csv has printed for failed attempts are numbered 1, 2, ...
AttemptLines(c, n) ==
  /\ Len(log[c]) >= n
  /\ \A i \in 1 .. n : log[c][i] = <<"Tentativa", i>>

BackoffState ==
  LET c == "c1"
      k == Failures(leituras[c])
  IN /\ lc_pc[c] = "while" =>
          /\ espera[c] = 2 * k /\ AttemptLines(c, k) /\ Len(log[c]) = k
     /\ lc_pc[c] = "print" =>
          /\ espera[c] = 2 * (k - 1) /\ AttemptLines(c, k - 1)
          /\ Len(log[c]) = k - 1
     /\ lc_pc[c] = "sleep" =>
          /\ espera[c] = 2 * (k - 1) /\ AttemptLines(c, k)
          /\ Len(log[c]) = k
     /\ (lc_pc[c] = "returned" /\ retorno[c] # None) =>
          /\ espera[c] = 2 * k /\ AttemptLines(c, k) /\ Len(log[c]) = k
     /\ (lc_pc[c] = "returned" /\ retorno[c] = None) =>
          /\ k = 5 /\ espera[c] = 10 /\ AttemptLines(c, 5)
          /\ log[c][6] = <<"Falha", 5>> /\ Len(log[c]) = 6

BackoffStep ==
  LET c == "c1" IN
    \* a failed read is followed by the print, the print by the wait
    /\ (lc_pc[c] = "print" /\ lc_pc'[c] # "print") =>
         /\ lc_pc'[c] = "sleep" /\ log'[c] = Append(log[c], <<"Tentativa",
                                                   tentativas[c]>>)
         /\ espera'[c] = espera[c] /\ leituras'[c] = leituras[c]
    /\ (lc_pc[c] = "sleep" /\ lc_pc'[c] # "sleep") =>
         /\ lc_pc'[c] = "while" /\ espera'[c] = espera[c] + 2
         /\ leituras'[c] = leituras[c] /\ retorno'[c] = retorno[c]
    \* nothing but the wait changes the time waited
    /\ (espera'[c] # espera[c]) => (lc_pc[c] = "sleep" \/ lc_pc[c] = "idle")
    \* a read after the first is made right after a wait
    /\ (Len(leituras'[c]) > Len(leituras[c]) /\ leituras[c] # <<>>) =>
         /\ lc_pc[c] = "while"
         /\ espera[c] = 2 * Len(leituras[c])

\* C25: in ler_csv every failed attempt is followed by the print of its
\* number and then by exactly one wait of 2 seconds, before anything else:
\* every attempt after the first comes right after one wait, a call with k
\* failed attempts has waited k times 2 seconds, and a call that gives up
\* has waited 5 times, the last time after the fifth failure and before it
\* returns None.
C25_Backoff == []BackoffState /\ [][BackoffStep]_vars

C25_Witness ==
  /\ lc_pc["c1"] = "returned"
  /\ retorno["c1"] = None
  /\ espera["c1"] = 10
  /\ log["c1"] = << <<"Tentativa", 1>>, <<"Tentativa", 2>>, <<"Tentativa", 3>>,
                    <<"Tentativa", 4>>, <<"Tentativa", 5>>, <<"Falha", 5>> >>

\* The end the rule gives a window that starts at s: s advanced by n
\* calendar years when that day exists, s + 365 * n days when it does not.
RuleEnd(s, n) ==
  IF ValidDate(s.year + n, s.month, s.day)
    THEN Date(s.day, s.month, s.year + n)
    ELSE FromOrdinal(ToOrdinal(s) + 365 * n)

\* C26: every window of split_date_range but the last ends exactly at its
\* start advanced by interval_years calendar years (same day and month), or
\* at its start + 365 * interval_years days when that day does not exist;
\* only the last window can be clamped, and it ends at end_date exactly
\* when the end the rule gives it lies after end_date.
C26_WindowEnd ==
  (sp_pc = "returned" /\ ValidCall) =>
     \A i \in Windows :
       LET rule == RuleEnd(WinStart(i), interval_years) IN
         /\ fallbacks[i] = ~ValidDate(WinStart(i).year + interval_years,
                                      WinStart(i).month, WinStart(i).day)
         /\ i < Len(result) =>
              /\ WinEnd(i) = rule
              /\ DateLess(rule, end_date)
         /\ i = Len(result) =>
              /\ ~DateLess(rule, end_date)
              /\ WinEnd(i) = IF DateLess(end_date, rule) THEN end_date
                                                         ELSE rule

C26_Witness ==
  /\ sp_pc = "returned" /\ ValidCall
  /\ Len(result) >= 2
  /\ fallbacks[1]
  /\ WinStart(1).month = 2 /\ WinStart(1).day = 29
  /\ ToOrdinal(WinEnd(1)) = ToOrdinal(WinStart(1)) + 365 * interval_years
  /\ ~fallbacks[Len(result)]
  /\ DateLess(end_date, RuleEnd(WinStart(Len(result)), interval_years))
  /\ WinEnd(Len(result)) = end_date

\* No read, wait or window of any series is in progress or left over.
NoFetch ==
  /\ \A c \in Calls :
       /\ lc_pc[c] = "idle" /\ leituras[c] = <<>> /\ espera[c] = 0
       /\ tentativas[c] = 0
  /\ sp_pc = "idle" /\ result = <<>>
  /\ pedidos = <<>> /\ ad_leituras = <<>>

SequentialState ==
  \* the fetch in progress is the fetch of the series called last
  /\ ad_pc # "idle" =>
       /\ chamadas # <<>>
       /\ ad_fn = Chamada[1]
       /\ serie = <<LinhaChamada.Input, LinhaChamada.Identificador>>
  /\ \A i \in 1 .. Len(pedidos) : pedidos[i][1] = serie[1]
  /\ lc_pc["c1"] # "idle" =>
       /\ ad_pc = "ler_csv"
       /\ tabela["c1"].blocos[1][1] = serie[1]
  /\ lc_pc["c2"] = "idle"
  /\ sp_pc # "idle" => ad_fn = "coleta_bcb_sgs"
  \* between two calls nothing is being fetched
  /\ ad_pc = "idle" => NoFetch
  \* no row is called twice
  /\ \A i \in 1 .. Len(chamadas), j \in 1 .. Len(chamadas) :
       i # j => chamadas[i][2] # chamadas[j][2]

SequentialStep ==
  chamadas' # chamadas =>
    \* the call is made when nothing is being fetched, after the table of
    \* every earlier call of the section has been stored
    /\ ad_pc = "idle" /\ NoFetch
    /\ chamadas' = Append(chamadas, chamadas'[Len(chamadas')])
    /\ EmLaco =>
         Len(SelectSeq(chamadas, LAMBDA ch : ch[1] = AdapterDe(orq_pc)))
           = orq_i - 1

\* C27: the series are collected one after the other: every read, every
\* wait and every window request belongs to the series called last, and a
\* series is called only when the fetch of the one before it is over and
\* its table stored; two fetches are never in progress at once.
C27_Sequential == []SequentialState /\ [][SequentialStep]_vars

C27_Witness ==
  /\ Len(chamadas) = 2
  /\ chamadas[1] = <<"coleta_bcb_sgs", 1>>
  /\ Len(df_bruto["bcb_sgs"]["Diária"]) = 1
  /\ chamadas[2] = <<"coleta_fred", 2>>
  /\ lc_pc["c1"] = "sleep"
  /\ tabela["c1"].blocos[1][1] = metadados[2].Input

\* data_inicio is not before data_fim.
EmptySpan ==
  /\ ad_fn = "coleta_bcb_sgs" /\ freq = "Diária"
  /\ ~DateLess(Strptime(periodo[1]), Strptime(periodo[2]))

\* C28: for a daily series whose data_inicio is not before data_fim,
\* coleta_bcb_sgs gets an empty list of windows from split_date_range,
\* requests nothing, and ends by raising the collection-failed error of
\* the series; it returns no table, not even an empty one.
C28_EmptySpan ==
  (EmptySpan /\ ad_pc # "start") =>
     /\ pedidos = <<>>
     /\ respostas = <<>>
     /\ lc_pc["c1"] = "idle" /\ leituras["c1"] = <<>>
     /\ ad_pc \in {"split", "loop", "raised"}
     /\ ad_pc \in {"loop", "raised"} => (result = <<>> /\ datas_inicio = <<>>)
     /\ ad_pc = "raised" =>
          /\ capturada = Raised("ValueError")
          /\ ad_exc = CollectionFailed(serie)
          /\ ad_ret = NotReturned

C28_Witness ==
  /\ EmptySpan
  /\ periodo = << <<31, 12, 2021>>, <<1, 1, 2016>> >>
  /\ ad_pc = "raised"
  /\ ad_exc = CollectionFailed(serie)
  /\ pedidos = <<>>

IfiCalls == SelectSeq(chamadas, LAMBDA ch : ch[1] = "coleta_ifi")

IfiRows == {i \in 1 .. Len(metadados) : metadados[i].Fonte = "IFI"}

IfiState ==
  /\ Len(IfiCalls) <= 1
  /\ IfiCalls # <<>> =>
       \* the call is the last one, made in the IFI section, for the first
       \* IFI row of the sheet
       /\ Chamada = IfiCalls[1]
       /\ orq_pc \in {"ifi", "done", "aborted"}
       /\ Chamada[2] \in IfiRows
       /\ \A i \in IfiRows : Chamada[2] <= i
       \* every row of the five loops has been called before it
       /\ \A k \in 1 .. Len(Secoes) : \A i \in 1 .. Len(InputDe(Secoes[k])) :
            \E j \in 1 .. (Len(chamadas) - 1) :
              chamadas[j] = <<AdapterDe(Secoes[k]), InputDe(Secoes[k])[i]>>
  \* a run that ends normally has made the call
  /\ orq_pc = "done" =>
       /\ Len(IfiCalls) = 1
       /\ RowOf(df_bruto["ifi"]) = IfiCalls[1][2]
  \* no other IFI row is ever called
  /\ \A j \in 1 .. Len(chamadas) :
       metadados[chamadas[j][2]].Fonte = "IFI" =>
         /\ chamadas[j][1] = "coleta_ifi"
         /\ \A i \in IfiRows : chamadas[j][2] <= i

\* C29: coleta_ifi is called at most once in a run and exactly once in a
\* run that reaches its end, after every selected row of BCB/SGS,
\* BCB/ODATA, IPEADATA, IBGE/SIDRA and FRED has been collected, and always
\* for the first row of the sheet whose Fonte is IFI; the other IFI rows
\* are never collected.
C29_IfiOnce == IfiState

C29_Witness ==
  /\ orq_pc = "done"
  /\ Len(metadados) = 2
  /\ metadados[1].Fonte = "IFI" /\ metadados[2].Fonte = "IFI"
  /\ metadados[1].Forma = "API" /\ metadados[2].Forma = "API"
  /\ chamadas = << <<"coleta_ifi", 1>> >>
  /\ RowOf(df_bruto["ifi"]) = 1

(***************************************************************************)
(* split_date_range with interval_years that may be 0.  A call that never  *)
(* leaves its loop is followed for MaxWindows iterations.                  *)
(***************************************************************************)
MaxWindows == 6

SplitCallAny ==
  /\ sp_pc = "idle"
  /\ \E s \in DateStrings, e \in DateStrings, n \in 0 .. MaxInterval :
       SplitEnter(s, e, n)
  /\ UNCHANGED <<lerVars, adVars>>
  /\ UNCHANGED <<amb, orqVars>>

SplitIterateCapped ==
  /\ interval_years = 0 => Len(result) < MaxWindows
  /\ SplitIterate

NextSplitAny == SplitCallAny \/ SplitIterateCapped \/ SplitReturn

SpecSplitAny == InitSplit /\ [][NextSplitAny]_vars

ZeroCall ==
  /\ sp_pc # "idle"
  /\ interval_years = 0
  /\ DateLess(start_date, end_date)

\* C30: split_date_range called with start < end and interval_years = 0
\* never returns: the end of every window is the cursor itself, the cursor
\* stays at start, the loop condition stays true, and every iteration
\* appends one more window (start, start).
C30_NeverReturns ==
  ZeroCall =>
    /\ sp_pc = "loop"
    /\ current_start = start_date
    /\ DateLess(current_start, end_date)
    /\ CandidateEnd(current_start, 0) = current_start
    /\ \A i \in Windows :
         result[i] = <<Strftime(start_date), Strftime(start_date)>>
    /\ \A i \in Windows : ~fallbacks[i]

C30_Witness ==
  /\ ZeroCall
  /\ Len(result) = MaxWindows
  /\ sp_pc = "loop"
  /\ result[MaxWindows] = <<Strftime(start_date), Strftime(start_date)>>

====
